---- MODULE Spec2Model ----
(***************************************************************************)
(* Delta synchronisation of a mail folder (msgraph/service.go).            *)
(*                                                                         *)
(* GetMailFolderMessagesDeltaLink ("EstablishBaseline") and                *)
(* GetMessagesDelta ("FetchChanges") walk a chain of pages served by the   *)
(* remote mail API.  The remote API is a stub keyed by request URL: every  *)
(* URL answers with an error or with a page holding items, an optional     *)
(* @odata.nextLink and an optional @odata.deltaLink.  The Service holds no *)
(* state besides its client handle, so the state below is the stub, the    *)
(* locals of the running call and what the caller observes.                *)
(***************************************************************************)
EXTENDS Integers, Sequences, FiniteSets, TLC

VARIABLES
    server,    \* the stub remote API: what Send / Get answers on each URL
    pc,        \* Idle, AwaitingFirstPage, AccumulatingPages, Done, Crashed
    op,        \* the method running or last run: "baseline" or "fetch"
    cursor,    \* target of the first request: folder listing or deltaLink
    response,  \* local result (line 90) / response (line 110): current page
    result,    \* local result of GetMessagesDelta (line 109): items so far
    reqs,      \* URLs requested by the call, in order
    received,  \* number of pages the call received
    ret,       \* what the call returned
    log        \* the completed calls: operation, cursor, requests, outcome

vars == <<server, pc, op, cursor, response, result, reqs, received, ret, log>>

\* ---------------------------------------------------------------- bounds
\* A call that has issued MaxRequests requests issues no further one (a
\* cyclic chain of next links would otherwise never end).
MaxRequests == 4

\* ---------------------------------------------------------------- values
\* nil *string
Nil == "nil"
\* the "" returned for the delta link on failure of GetMessagesDelta
Empty == ""
\* URL of the folder listing (microsoft.graph.delta()?changeType=created)
FolderURL == "F"
\* link values the server hands out (next links and delta links alike)
Tokens == {"u1", "u2"}
URLs == {FolderURL} \cup Tokens
\* GetValue() of one page: no message, or one of two distinct messages
ItemLists == {<<>>, <<"a">>, <<"b">>}

\* A page body: GetValue(), GetOdataNextLink(), GetOdataDeltaLink()
Pages == [items : ItemLists, next : Tokens \cup {Nil}, delta : Tokens \cup {Nil}]

NilResponse == [items |-> <<>>, next |-> Nil, delta |-> Nil]

\* What the stub answers on one URL: an error, or a page
Answers == [status : {"ok"}, page : Pages]
             \cup {[status |-> "error", page |-> NilResponse]}

NoRet == [items |-> <<>>, cursor |-> Nil, err |-> FALSE]

\* ---------------------------------------------------------------- helpers
\* adapter.Send / requestBuilder.Get: one request against the stub
Send(url) == server[url]

\* (variant) the baseline stops at the first delta link it sees
BaselineStopsAtDelta(page) == page.next # Nil /\ page.delta = Nil

\* loop test of GetMailFolderMessagesDeltaLink: result.GetOdataNextLink() != nil
BaselineContinues(page) == page.next # Nil

\* (variant) the change round loops while a next link is present
FetchWhileNext(page) == page.next # Nil

\* (variant) the loop test of the change round is inverted
FetchWhileDelta(page) == page.delta # Nil

\* loop test of GetMessagesDelta: response.GetOdataDeltaLink() == nil
FetchContinues(page) == page.delta = Nil

\* (variant) a page carrying a delta link is asked for again through it
FollowDeltaFirst(page) == IF page.delta # Nil THEN page.delta ELSE page.next

\* target of the request inside either loop: *GetOdataNextLink()
NextLink(page) == page.next

\* (variant) newer pages are put in front of the accumulated items
PrependItems(acc, page) == page.items \o acc

\* result = append(result, response.GetValue()...)
AppendItems(acc, page) == acc \o page.items

\* return nil, parseError(err)
BaselineError == [items |-> <<>>, cursor |-> Nil, err |-> TRUE]

\* (variant) the items accumulated so far are handed back with the error
FetchErrorPartial(acc) == [items |-> acc, cursor |-> Empty, err |-> TRUE]

\* return nil, "", parseError(err)
FetchError(acc) == [items |-> <<>>, cursor |-> Empty, err |-> TRUE]

\* return result.GetOdataDeltaLink(), nil
BaselineResult(page) == [items |-> <<>>, cursor |-> page.delta, err |-> FALSE]

\* (variant) a round without changes is reported as an error
FetchResultNoEmpty(acc, page) ==
    IF acc = <<>> THEN [items |-> <<>>, cursor |-> Empty, err |-> TRUE]
                  ELSE [items |-> acc, cursor |-> page.delta, err |-> FALSE]

\* dl := *response.GetOdataDeltaLink(); return result, dl, nil
FetchResult(acc, page) == [items |-> acc, cursor |-> page.delta, err |-> FALSE]

\* (variant) the accumulator outlives the call (a field of the Service)
KeptResult(previous) == previous

\* var result []models.Messageable
FreshResult(previous) == <<>>

\* ---------------------------------------------------------------- Init
Init ==
    /\ server \in [URLs -> Answers]
    /\ pc = "Idle"
    /\ op = "none"
    /\ cursor = Nil
    /\ response = NilResponse
    /\ result = <<>>
    /\ reqs = <<>>
    /\ received = 0
    /\ ret = NoRet
    /\ log = {}

\* ---------------------------------------------------------------- actions
\* The caller invokes GetMailFolderMessagesDeltaLink (lines 73-85): the
\* request descriptor for the folder listing is built, nothing is sent yet.
\* ToGetRequestInformation is given a nil configuration and only fills in
\* the descriptor, so the error return of lines 76-78 is not taken.
CallBaseline ==
    /\ pc = "Idle"
    /\ pc' = "AwaitingFirstPage"
    /\ op' = "baseline"
    /\ cursor' = FolderURL
    /\ response' = NilResponse
    /\ result' = <<>>
    /\ reqs' = <<>>
    /\ received' = 0
    /\ ret' = NoRet
    /\ UNCHANGED <<server, log>>

\* The caller invokes GetMessagesDelta with a delta link (lines 108-109).
CallFetch ==
    /\ pc = "Idle"
    /\ \E c \in Tokens :
         /\ cursor' = c
    /\ pc' = "AwaitingFirstPage"
    /\ op' = "fetch"
    /\ response' = NilResponse
    /\ result' = FreshResult(result)
    /\ reqs' = <<>>
    /\ received' = 0
    /\ ret' = NoRet
    /\ UNCHANGED <<server, log>>

\* Lines 86-90: the first request of the baseline.
BaselineFirstPage ==
    /\ pc = "AwaitingFirstPage"
    /\ op = "baseline"
    /\ Len(reqs) < MaxRequests
    /\ reqs' = Append(reqs, cursor)
    /\ LET a == Send(cursor) IN
         IF a.status = "error"
           THEN /\ pc' = "Done"
                /\ ret' = BaselineError
                /\ UNCHANGED <<response, received>>
           ELSE /\ pc' = "AccumulatingPages"
                /\ response' = a.page
                /\ received' = received + 1
                /\ UNCHANGED ret
    /\ UNCHANGED <<server, op, cursor, result, log>>

\* Lines 93-100: one evaluation of the loop test, then either the request
\* of the next page or the return of the delta link.
BaselineLoop ==
    /\ pc = "AccumulatingPages"
    /\ op = "baseline"
    /\ IF BaselineContinues(response)
         THEN /\ Len(reqs) < MaxRequests
              /\ reqs' = Append(reqs, NextLink(response))
              /\ LET a == Send(NextLink(response)) IN
                   IF a.status = "error"
                     THEN /\ pc' = "Done"
                          /\ ret' = BaselineError
                          /\ UNCHANGED <<response, received>>
                     ELSE /\ pc' = "AccumulatingPages"
                          /\ response' = a.page
                          /\ received' = received + 1
                          /\ UNCHANGED ret
         ELSE /\ pc' = "Done"
              /\ ret' = BaselineResult(response)
              /\ UNCHANGED <<response, received, reqs>>
    /\ UNCHANGED <<server, op, cursor, result, log>>

\* Lines 110-114: the first request of a change round.
FetchFirstPage ==
    /\ pc = "AwaitingFirstPage"
    /\ op = "fetch"
    /\ Len(reqs) < MaxRequests
    /\ reqs' = Append(reqs, cursor)
    /\ LET a == Send(cursor) IN
         IF a.status = "error"
           THEN /\ pc' = "Done"
                /\ ret' = FetchError(result)
                /\ UNCHANGED <<response, received, result>>
           ELSE /\ pc' = "AccumulatingPages"
                /\ response' = a.page
                /\ received' = received + 1
                /\ result' = AppendItems(result, a.page)
                /\ UNCHANGED ret
    /\ UNCHANGED <<server, op, cursor, log>>

\* Lines 116-126: one evaluation of the loop test, then either the request
\* of the next page (dereferencing the next link, a nil dereference panics)
\* or the return of the items and the delta link.
FetchLoop ==
    /\ pc = "AccumulatingPages"
    /\ op = "fetch"
    /\ IF FetchContinues(response)
         THEN IF response.next = Nil
                THEN /\ pc' = "Crashed"
                     /\ UNCHANGED <<response, received, result, reqs, ret>>
                ELSE /\ Len(reqs) < MaxRequests
                     /\ reqs' = Append(reqs, NextLink(response))
                     /\ LET a == Send(NextLink(response)) IN
                          IF a.status = "error"
                            THEN /\ pc' = "Done"
                                 /\ ret' = FetchError(result)
                                 /\ UNCHANGED <<response, received, result>>
                            ELSE /\ pc' = "AccumulatingPages"
                                 /\ response' = a.page
                                 /\ received' = received + 1
                                 /\ result' = AppendItems(result, a.page)
                                 /\ UNCHANGED ret
         ELSE /\ pc' = "Done"
              /\ ret' = FetchResult(result, response)
              /\ UNCHANGED <<response, received, result, reqs>>
    /\ UNCHANGED <<server, op, cursor, log>>

\* The call has returned; the caller takes the outcome and is free to
\* make the next call.
Return ==
    /\ pc = "Done"
    /\ pc' = "Idle"
    /\ log' = log \cup {[op |-> op, cursor |-> cursor, reqs |-> reqs, ret |-> ret]}
    /\ UNCHANGED <<server, op, cursor, response, result, reqs, received, ret>>

Next ==
    \/ CallBaseline
    \/ CallFetch
    \/ BaselineFirstPage
    \/ BaselineLoop
    \/ FetchFirstPage
    \/ FetchLoop
    \/ Return

Spec == Init /\ [][Next]_vars

\* The calls are synchronous and blocking: a running call takes its next
\* step; nothing obliges the caller to make another call.
Running == BaselineFirstPage \/ BaselineLoop \/ FetchFirstPage \/ FetchLoop

FairSpec == Spec /\ WF_vars(Running)

\* ---------------------------------------------------------------- the chain the stub serves
\* The URL of the last request, the answer to the i-th request.
LastURL == reqs[Len(reqs)]
AnswerAt(i) == server[reqs[i]]

Both(page) == page.next # Nil /\ page.delta # Nil
Neither(page) == page.next = Nil /\ page.delta = Nil
ExactlyOne(page) == (page.next # Nil) # (page.delta # Nil)

\* The URLs of a change round P1..Pk read off the stub: pages carrying only
\* a next link, each followed through that link, up to the first page
\* carrying a delta link; <<>> when the stub serves no such round from url.
RECURSIVE RoundChain(_, _)
RoundChain(url, fuel) ==
    IF fuel = 0 \/ url \notin URLs \/ server[url].status = "error" THEN <<>>
    ELSE LET page == server[url].page IN
         IF page.delta # Nil THEN <<url>>
         ELSE IF page.next = Nil THEN <<>>
         ELSE LET rest == RoundChain(page.next, fuel - 1) IN
              IF rest = <<>> THEN <<>> ELSE <<url>> \o rest

\* The URLs of a baseline traversal read off the stub: pages followed
\* through their next link up to the first page without one; <<>> when a
\* request of that traversal fails or the links never end.
RECURSIVE BaselineChain(_, _)
BaselineChain(url, fuel) ==
    IF fuel = 0 \/ url \notin URLs \/ server[url].status = "error" THEN <<>>
    ELSE LET page == server[url].page IN
         IF page.next = Nil THEN <<url>>
         ELSE LET rest == BaselineChain(page.next, fuel - 1) IN
              IF rest = <<>> THEN <<>> ELSE <<url>> \o rest

\* The chain from url when every page of it carries exactly one of the two
\* links and a delta link is reached without a failing request; else <<>>.
WellFormedChain(url) ==
    LET chain == RoundChain(url, MaxRequests) IN
    IF \A i \in 1..Len(chain) : ExactlyOne(server[chain[i]].page)
      THEN chain ELSE <<>>

RECURSIVE ConcatItems(_)
ConcatItems(chain) ==
    IF chain = <<>> THEN <<>>
    ELSE server[Head(chain)].page.items \o ConcatItems(Tail(chain))

Returned == pc \in {"Done", "Idle"} /\ op # "none"

\* ---------------------------------------------------------------- claims

\* C1: a change round over pages P1..Pk, of which P1..Pk-1 carry only a
\* next link and Pk carries a delta link, returns I1 ++ ... ++ Ik in that
\* order and Pk's delta link as the new cursor.
C1_AccumulationOrder ==
    LET chain == RoundChain(cursor, MaxRequests) IN
    (pc = "Done" /\ op = "fetch" /\ chain # <<>>) =>
        /\ reqs = chain
        /\ ret = [items |-> ConcatItems(chain),
                  cursor |-> server[chain[Len(chain)]].page.delta,
                  err |-> FALSE]

C1_Witness ==
    /\ pc = "Done" /\ op = "fetch"
    /\ Len(RoundChain(cursor, MaxRequests)) = 2
    /\ ret.items = <<"a", "b">>

\* C2: when a page request fails, first or later, in either traversal, no
\* further request is issued and the call returns an error with no cursor
\* and no items, whatever was accumulated before.
C2_FailureAborts ==
    \A i \in 1..Len(reqs) :
        AnswerAt(i).status = "error" =>
            /\ i = Len(reqs)
            /\ Returned
            /\ ret.err
            /\ ret.items = <<>>
            /\ ret.cursor = (IF op = "baseline" THEN Nil ELSE Empty)

C2_Witness ==
    /\ pc = "Done" /\ op = "fetch"
    /\ Len(reqs) = 2 /\ AnswerAt(2).status = "error"
    /\ result # <<>>
    /\ ret.err

\* C3: a baseline over N >= 1 pages returns only the delta link of the
\* final page, the first page without a next link; no item of any page is
\* returned or kept.
C3_BaselineDiscardsItems ==
    LET chain == BaselineChain(FolderURL, MaxRequests) IN
    (pc = "Done" /\ op = "baseline" /\ chain # <<>>) =>
        /\ reqs = chain
        /\ ret = [items |-> <<>>,
                  cursor |-> server[chain[Len(chain)]].page.delta,
                  err |-> FALSE]
        /\ result = <<>>

C3_Witness ==
    /\ pc = "Done" /\ op = "baseline"
    /\ Len(reqs) = 3 /\ received = 3
    /\ \A i \in 1..3 : AnswerAt(i).page.items # <<>>
    /\ ret.cursor # Nil

\* C4: a change round that receives a page carrying neither link ends by
\* returning an error: no crash, no success, no endless loop.
C4_FetchNeitherIsError ==
    (op = "fetch" /\ received >= 1 /\ Neither(response)
        /\ pc # "AccumulatingPages") =>
        (Returned /\ ret.err)

\* C5: a baseline that receives a page carrying neither link returns an
\* error; a successful baseline always carries a delta link.
C5_BaselineNeitherIsError ==
    (op = "baseline" /\ pc = "Done") =>
        /\ (received >= 1 /\ Neither(response)) => ret.err
        /\ ~ret.err => ret.cursor # Nil

\* C6: against a stub whose pages carry exactly one link each and whose
\* next links lead to a delta link without a failing request, either
\* traversal ends, and ends at the first page carrying a delta link:
\* AwaitingFirstPage, then AccumulatingPages, then Done, with no request
\* after that page.
C6_Terminates ==
    /\ [](WellFormedChain(cursor) # <<>> /\ pc = "Done" =>
             /\ reqs = WellFormedChain(cursor)
             /\ ~ret.err
             /\ ret.cursor = server[LastURL].page.delta)
    /\ [][WellFormedChain(cursor) # <<>> =>
             /\ pc = "AwaitingFirstPage" => pc' = "AccumulatingPages"
             /\ pc = "AccumulatingPages" =>
                   pc' \in {"AccumulatingPages", "Done"}]_vars
    /\ (pc = "AwaitingFirstPage" /\ WellFormedChain(cursor) # <<>>)
           ~> (pc = "Done")

C6_Witness ==
    /\ pc = "Done" /\ op = "baseline"
    /\ Len(WellFormedChain(FolderURL)) = 3
    /\ Len(reqs) = 3

C8_EmptyRound ==
    (pc = "Done" /\ op = "fetch" /\ server[cursor].status = "ok"
        /\ server[cursor].page.items = <<>>
        /\ server[cursor].page.delta # Nil) =>
        /\ ret = [items |-> <<>>, cursor |-> server[cursor].page.delta,
                  err |-> FALSE]
        /\ Len(reqs) = 1

C8_Witness ==
    /\ pc = "Done" /\ op = "fetch" /\ Len(reqs) = 1
    /\ response.items = <<>> /\ response.delta # Nil
    /\ ret.cursor = response.delta /\ ~ret.err

\* C9: nothing is kept between calls: two change rounds with the same
\* cursor against the same stub, whatever was called in between and
\* whether the earlier one failed or not, issue the same requests and
\* return the same items and cursor.
C9_ReplayDeterministic ==
    LET now == [op |-> op, cursor |-> cursor, reqs |-> reqs, ret |-> ret]
        all == IF pc = "Done" THEN log \cup {now} ELSE log IN
    \A r1 \in all : \A r2 \in all :
        (r1.op = r2.op /\ r1.cursor = r2.cursor) => r1 = r2

C9_Witness ==
    /\ pc = "Done" /\ op = "fetch"
    /\ \E r \in log : r.op = "fetch" /\ r.cursor = cursor /\ r.ret.items # <<>>
    /\ \E r \in log : r.op = "fetch" /\ r.cursor # cursor /\ r.ret.err
    /\ \E r \in log : r.op = "baseline"

\* C10: on a page carrying both links the change round stops and returns
\* the delta link without following the next link, while the baseline
\* follows the next link; on a page carrying exactly one link both go on
\* exactly when it is the next link.
C10_StopTestsDiffer ==
    [][pc = "AccumulatingPages" =>
         /\ (Both(response) /\ op = "fetch") =>
               /\ pc' = "Done"
               /\ reqs' = reqs
               /\ ret' = [items |-> result, cursor |-> response.delta,
                          err |-> FALSE]
         /\ (Both(response) /\ op = "baseline") =>
               reqs' = Append(reqs, response.next)
         /\ ExactlyOne(response) =>
               ((reqs' # reqs) <=> (response.next # Nil))]_vars

C10_Witness ==
    /\ pc = "Done" /\ op = "fetch" /\ Both(response)
    /\ ret.cursor = response.delta
    /\ \E r \in log : /\ r.op = "baseline"
                      /\ Len(r.reqs) >= 2
                      /\ Both(server[r.reqs[1]].page)
====
